---- MODULE Spec2Model ----
(***************************************************************************)
(* Model orchestration layer (src/core/ai/model_manager.py) and session    *)
(* store (src/core/database.py) of the conversational backend.             *)
(*                                                                         *)
(* Both components run on one asyncio event loop: a coroutine runs         *)
(* atomically from one suspension point (an await on the provider or on    *)
(* the cache) to the next, so every action below is one such segment.      *)
(*                                                                         *)
(* Numbers: costs are integers in units of 1e-9 dollars (tokens times      *)
(* micro-dollars per 1k tokens), latencies are integer milliseconds, the   *)
(* running average is an exact rational <<numerator, denominator>>.        *)
(* A text is abstracted to the number of tokens the encoder counts in it.  *)
(***************************************************************************)
EXTENDS Integers, Sequences, FiniteSets, TLC

VARIABLES
    initialized,   \* ModelManager.initialized
    client,        \* ModelManager.client: "none", "open", "closed"
    usage_stats,   \* ModelManager.usage_stats: model type value -> ModelUsage
    calls,         \* in-flight and finished chat_completion / generate_embeddings calls
    now,           \* the clock (event loop time and cache server time), seconds
    store,         \* the cache: session id -> stored value with its expiry, or NoRec
    procs,         \* session store operations in flight
    ret,           \* what the session store operation that returned in the last
                   \*   step returned, NoReturn after any other step
    scen,          \* history: progress of a sequential create / update / get run
    last_ok,       \* history: time of the last write that succeeded
    lapsed,        \* history: "no", or no write succeeded for longer than the
                   \*   timeout and create_session was not called since: "quiet"
                   \*   when no operation was in flight at that moment, else "busy"
                   \* (the three histories are kept for the session Watched)
    probe          \* a call of one of the functions that change no state: its
                   \*   arguments and, once it has returned, its result

mvars == <<initialized, client, usage_stats, calls>>
svars == <<now, store, procs, ret, scen, last_ok, lapsed>>
fvars == <<probe>>
vars == <<initialized, client, usage_stats, calls, now, store, procs, ret, scen,
          last_ok, lapsed, probe>>

(***************************************************************************)
(* Bounds of the model                                                     *)
(***************************************************************************)
MaxCalls == 2
MaxProcs == 2
MaxTicks == 3
MaxOverlapTicks == 1
TickSeconds == 900

Calls == 1..MaxCalls
None == "None"

(***************************************************************************)
(* Character sequences, for the substring tests the code makes             *)
(***************************************************************************)
Replace(s, old, new) == [k \in 1..Len(s) |-> IF s[k] = old THEN new ELSE s[k]]

Contains(hay, needle) ==
    \E k \in 0..(Len(hay) - Len(needle)) :
        \A j \in 1..Len(needle) : hay[k + j] = needle[j]

(***************************************************************************)
(* Model registry                                                          *)
(***************************************************************************)
ModelTypes == {"chat", "vision", "audio", "reasoning", "fast_reasoning", "embeddings"}

ModelTypeValue(mt) ==
    CASE mt = "chat" -> <<"c","h","a","t">>
      [] mt = "vision" -> <<"v","i","s","i","o","n">>
      [] mt = "audio" -> <<"a","u","d","i","o">>
      [] mt = "reasoning" -> <<"r","e","a","s","o","n","i","n","g">>
      [] mt = "fast_reasoning" -> <<"f","a","s","t","_","r","e","a","s","o","n","i","n","g">>
      [] mt = "embeddings" -> <<"e","m","b","e","d","d","i","n","g","s">>

ConfigName(mt) ==
    CASE mt = "chat" -> <<"g","p","t","-","4","o","-","m","i","n","i">>
      [] mt = "vision" -> <<"g","p","t","-","4","o","-","m","i","n","i","-","v","i","s","i","o","n">>
      [] mt = "audio" -> <<"g","p","t","-","4","o","-","m","i","n","i","-","a","u","d","i","o">>
      [] mt = "reasoning" -> <<"o","1">>
      [] mt = "fast_reasoning" -> <<"o","3","-","m","i","n","i">>
      [] mt = "embeddings" -> <<"t","e","x","t","-","e","m","b","e","d","d","i","n","g","-","3","-","s","m","a","l","l">>

Models(mt) ==
    CASE mt = "chat" ->
           [name |-> "gpt-4o-mini", cost_per_1k_input |-> 150, cost_per_1k_output |-> 600,
            context_window |-> 128000, supports_functions |-> TRUE, supports_streaming |-> TRUE]
      [] mt = "vision" ->
           [name |-> "gpt-4o-mini-vision", cost_per_1k_input |-> 150, cost_per_1k_output |-> 600,
            context_window |-> 128000, supports_functions |-> TRUE, supports_streaming |-> TRUE]
      [] mt = "audio" ->
           [name |-> "gpt-4o-mini-audio", cost_per_1k_input |-> 150, cost_per_1k_output |-> 600,
            context_window |-> 128000, supports_functions |-> TRUE, supports_streaming |-> FALSE]
      [] mt = "reasoning" ->
           [name |-> "o1", cost_per_1k_input |-> 15000, cost_per_1k_output |-> 60000,
            context_window |-> 200000, supports_functions |-> FALSE, supports_streaming |-> FALSE]
      [] mt = "fast_reasoning" ->
           [name |-> "o3-mini", cost_per_1k_input |-> 6000, cost_per_1k_output |-> 24000,
            context_window |-> 128000, supports_functions |-> TRUE, supports_streaming |-> TRUE]
      [] mt = "embeddings" ->
           [name |-> "text-embedding-3-small", cost_per_1k_input |-> 20, cost_per_1k_output |-> 0,
            context_window |-> 8191, supports_functions |-> FALSE, supports_streaming |-> FALSE]

ModelUsage ==
    [total_requests |-> 0, total_tokens_input |-> 0, total_tokens_output |-> 0,
     total_cost |-> 0, average_latency_ms |-> <<0, 1>>, error_count |-> 0]

(***************************************************************************)
(* Exact rationals <<n, d>>, d > 0, in lowest terms                        *)
(***************************************************************************)
RECURSIVE Gcd(_, _)
Gcd(a, b) == IF b = 0 THEN a ELSE Gcd(b, a % b)

Ratio(n, d) == LET g == Gcd(n, d) IN IF g = 0 THEN <<0, 1>> ELSE <<n \div g, d \div g>>

(***************************************************************************)
(* Routing and token accounting                                            *)
(***************************************************************************)
Lower(s) ==
    LET up == <<"A","B","C","D","E","F","G","H","I","J","K","L","M",
                "N","O","P","Q","R","S","T","U","V","W","X","Y","Z">>
        lo == <<"a","b","c","d","e","f","g","h","i","j","k","l","m",
                "n","o","p","q","r","s","t","u","v","w","x","y","z">>
    IN [k \in 1..Len(s) |->
            IF \E j \in 1..Len(up) : up[j] = s[k]
            THEN lo[CHOOSE j \in 1..Len(up) : up[j] = s[k]]
            ELSE s[k]]

\* select_optimal_model testing the audio hint before the vision hint
select_audio_first(task_type, complexity, speed_requirement) ==
    IF task_type = <<"e","m","b","e","d","d","i","n","g">> THEN "embeddings"
    ELSE IF task_type = <<"a","u","d","i","o">>
            \/ Contains(Lower(task_type), <<"s","p","e","e","c","h">>) THEN "audio"
    ELSE IF task_type = <<"v","i","s","i","o","n">>
            \/ Contains(Lower(task_type), <<"i","m","a","g","e">>) THEN "vision"
    ELSE IF task_type = <<"r","e","a","s","o","n","i","n","g">> \/ complexity = "high"
         THEN (IF speed_requirement = "fast" THEN "fast_reasoning" ELSE "reasoning")
    ELSE IF complexity = "low" /\ speed_requirement = "fast" THEN "fast_reasoning"
    ELSE "chat"

\* select_optimal_model without the test of the speed in the reasoning branch
select_ignoring_speed(task_type, complexity, speed_requirement) ==
    IF task_type = <<"e","m","b","e","d","d","i","n","g">> THEN "embeddings"
    ELSE IF task_type = <<"v","i","s","i","o","n">>
            \/ Contains(Lower(task_type), <<"i","m","a","g","e">>) THEN "vision"
    ELSE IF task_type = <<"a","u","d","i","o">>
            \/ Contains(Lower(task_type), <<"s","p","e","e","c","h">>) THEN "audio"
    ELSE IF task_type = <<"r","e","a","s","o","n","i","n","g">> \/ complexity = "high"
         THEN "reasoning"
    ELSE IF complexity = "low" /\ speed_requirement = "fast" THEN "fast_reasoning"
    ELSE "chat"

select_optimal_model(task_type, complexity, speed_requirement) ==
    IF task_type = <<"e","m","b","e","d","d","i","n","g">> THEN "embeddings"
    ELSE IF task_type = <<"v","i","s","i","o","n">>
            \/ Contains(Lower(task_type), <<"i","m","a","g","e">>) THEN "vision"
    ELSE IF task_type = <<"a","u","d","i","o">>
            \/ Contains(Lower(task_type), <<"s","p","e","e","c","h">>) THEN "audio"
    ELSE IF task_type = <<"r","e","a","s","o","n","i","n","g">> \/ complexity = "high"
         THEN (IF speed_requirement = "fast" THEN "fast_reasoning" ELSE "reasoning")
    ELSE IF complexity = "low" /\ speed_requirement = "fast" THEN "fast_reasoning"
    ELSE "chat"

\* A text is represented by the number of tokens the encoder finds in it.
count_tokens(text) == text

RECURSIVE PartsTokens(_)
PartsTokens(parts) ==
    IF parts = <<>> THEN 0
    ELSE (IF Head(parts).type = "text" THEN count_tokens(Head(parts).text) ELSE 0)
         + PartsTokens(Tail(parts))

RECURSIVE MessagesTokens(_)
MessagesTokens(messages) ==
    IF messages = <<>> THEN 0
    ELSE (CASE Head(messages).kind = "str" -> count_tokens(Head(messages).content)
            [] Head(messages).kind = "list" -> PartsTokens(Head(messages).content)
            [] OTHER -> 0)
         + MessagesTokens(Tail(messages))

\* validate_input_length rejecting the boundary as well
validate_input_length_inclusive(messages, model_type) ==
    IF MessagesTokens(messages) >= Models(model_type).context_window
    THEN [kind |-> "TokenLimitExceededError", model_name |-> Models(model_type).name,
          token_count |-> MessagesTokens(messages),
          max_tokens |-> Models(model_type).context_window]
    ELSE [kind |-> "True"]

validate_first_message_only(messages, model_type) ==
    IF MessagesTokens(SubSeq(messages, 1, 1)) > Models(model_type).context_window
    THEN [kind |-> "TokenLimitExceededError", model_name |-> Models(model_type).name,
          token_count |-> MessagesTokens(SubSeq(messages, 1, 1)),
          max_tokens |-> Models(model_type).context_window]
    ELSE [kind |-> "True"]

\* validate_input_length: the error it raises, or True
validate_input_length(messages, model_type) ==
    LET total_tokens == MessagesTokens(messages)
        max_tokens == Models(model_type).context_window
    IN IF total_tokens > max_tokens
       THEN [kind |-> "TokenLimitExceededError", model_name |-> Models(model_type).name,
             token_count |-> total_tokens, max_tokens |-> max_tokens]
       ELSE [kind |-> "True"]

_calculate_cost(model_config, input_tokens, output_tokens) ==
    input_tokens * model_config.cost_per_1k_input
        + output_tokens * model_config.cost_per_1k_output

(***************************************************************************)
(* Usage ledger                                                            *)
(***************************************************************************)
ModelOrder == <<"chat", "vision", "audio", "reasoning", "fast_reasoning", "embeddings">>

\* next(config for config in self.models.values()
\*      if config.name.replace("-", "_") in model_name): the first match in
\* dictionary order, or None when the generator is exhausted (StopIteration).
FindConfig(model_name) ==
    LET hits == {k \in 1..Len(ModelOrder) :
                    Contains(ModelTypeValue(model_name),
                             Replace(ConfigName(ModelOrder[k]), "-", "_"))}
    IN IF hits = {} THEN None
       ELSE ModelOrder[CHOOSE k \in hits : \A j \in hits : k <= j]

\* The running average taken as the mean of the old average and the new
\* latency, whatever the number of requests
UpdateCountersHalving(stats, input_tokens, output_tokens, processing_ms) ==
    LET avg == stats.average_latency_ms
    IN [stats EXCEPT !.total_requests = @ + 1,
                     !.total_tokens_input = @ + input_tokens,
                     !.total_tokens_output = @ + output_tokens,
                     !.average_latency_ms =
                         Ratio(avg[1] + processing_ms * avg[2], avg[2] * 2)]

UpdateCountersOverwrite(stats, input_tokens, output_tokens, processing_ms) ==
    [stats EXCEPT !.total_requests = @ + 1,
                  !.total_tokens_input = input_tokens,
                  !.total_tokens_output = output_tokens,
                  !.average_latency_ms = <<processing_ms, 1>>]

\* The counters and the running average, lines 459-465.
UpdateCounters(stats, input_tokens, output_tokens, processing_ms) ==
    LET n == stats.total_requests + 1
        avg == stats.average_latency_ms
        total_time == <<avg[1] * (n - 1) + processing_ms * avg[2], avg[2]>>
    IN [stats EXCEPT !.total_requests = n,
                     !.total_tokens_input = @ + input_tokens,
                     !.total_tokens_output = @ + output_tokens,
                     !.average_latency_ms = Ratio(total_time[1], total_time[2] * n)]

\* _update_usage_stats: the ledger it leaves and whether it raised. A
\* StopIteration leaving the generator expression inside the coroutine
\* surfaces as RuntimeError after the counters have been written.
_update_usage_stats(ledger, model_name, input_tokens, output_tokens, processing_ms) ==
    LET counted == UpdateCounters(ledger[model_name], input_tokens, output_tokens,
                                  processing_ms)
        cfg == FindConfig(model_name)
    IN IF cfg = None
       THEN [ledger |-> [ledger EXCEPT ![model_name] = counted], raised |-> TRUE]
       ELSE [ledger |-> [ledger EXCEPT ![model_name] =
                            [counted EXCEPT !.total_cost =
                                @ + _calculate_cost(Models(cfg), input_tokens, output_tokens)]],
             raised |-> FALSE]

\* round(x, ndigits) for x = r[1] / r[2] >= 0, as the number of units of
\* 10^-ndigits, scale = 10^ndigits: to the nearest, a tie to the even one.
Round(r, scale) ==
    LET n == r[1] * scale
        q == n \div r[2]
        rest == n % r[2]
    IN IF 2 * rest > r[2] THEN q + 1
       ELSE IF 2 * rest < r[2] THEN q
       ELSE IF q % 2 = 0 THEN q ELSE q + 1

Max(a, b) == IF a >= b THEN a ELSE b

\* The "usage" dictionary get_status builds for one entry (lines 494-499):
\* total_cost in 1e-4 dollars, average_latency_ms in 1e-2 ms, error_rate in
\* 1e-2 percent.
UsageOf(stats) ==
    [total_requests |-> stats.total_requests,
     total_cost |-> Round(<<stats.total_cost, 1000000000>>, 10000),
     average_latency_ms |-> Round(stats.average_latency_ms, 100),
     error_rate |-> Round(<<stats.error_count * 100, Max(stats.total_requests, 1)>>,
                          100)]

\* get_status handing out the ledger itself
get_status_live(is_initialized, ledger) ==
    IF ~is_initialized THEN [kind |-> "dict", status |-> "not_initialized", usage |-> <<>>]
    ELSE [kind |-> "live", status |-> "ready", usage |-> <<>>]

\* get_status (lines 480-504): a new dictionary holding, per model, numbers
\* computed from the entry; the coroutine has no await.
get_status(is_initialized, ledger) ==
    IF ~is_initialized THEN [kind |-> "dict", status |-> "not_initialized", usage |-> <<>>]
    ELSE [kind |-> "dict", status |-> "ready",
          usage |-> [mt \in DOMAIN ledger |-> UsageOf(ledger[mt])]]

(***************************************************************************)
(* Provider errors and their classification                                *)
(***************************************************************************)
RateLimitMessage == <<"R","a","t","e"," ","l","i","m","i","t"," ","r","e","a","c","h","e","d">>
TimeoutMessage == <<"R","e","q","u","e","s","t"," ","t","i","m","e","d"," ","o","u","t">>
StopIterationMessage ==
    <<"c","o","r","o","u","t","i","n","e"," ","r","a","i","s","e","d"," ",
      "S","t","o","p","I","t","e","r","a","t","i","o","n">>

BadRequestMessage == <<"B","a","d"," ","r","e","q","u","e","s","t">>

\* The client retries transient failures max_retries = 3 times (line 161) and
\* gives up at once on the others: a failure surfaces after 4 attempts or 1.
ProviderErrors ==
    {[message |-> RateLimitMessage, attempts |-> 4],
     [message |-> TimeoutMessage, attempts |-> 4],
     [message |-> BadRequestMessage, attempts |-> 1]}

ClassifyChatCaseSensitive(model_type, message, messages) ==
    IF Contains(message, <<"r","a","t","e"," ","l","i","m","i","t">>)
    THEN [kind |-> "RateLimitExceededError", service |-> "Azure OpenAI"]
    ELSE [kind |-> "ModelInferenceError", model_name |-> Models(model_type).name,
          detail |-> message, input_data |-> [messages |-> messages]]

\* The except block of chat_completion, lines 354-365: the error it raises;
\* input_data is the third argument of ModelInferenceError, which keeps it in
\* its context (exceptions.py 50-56).
ClassifyChatError(model_type, message, messages) ==
    IF Contains(Lower(message), <<"r","a","t","e"," ","l","i","m","i","t">>)
    THEN [kind |-> "RateLimitExceededError", service |-> "Azure OpenAI"]
    ELSE [kind |-> "ModelInferenceError", model_name |-> Models(model_type).name,
          detail |-> message, input_data |-> [messages |-> messages]]

\* The except block of generate_embeddings, lines 415-419.
ClassifyEmbeddingsError(message, texts) ==
    [kind |-> "ModelInferenceError", model_name |-> Models("embeddings").name,
     detail |-> message, input_data |-> [texts |-> texts]]

\* error_count kept in one object that all the entries share
AddErrorEverywhere(ledger, model_name) ==
    [mt \in DOMAIN ledger |-> [ledger[mt] EXCEPT !.error_count = @ + 1]]

AddErrorAndRequest(ledger, model_name) ==
    [ledger EXCEPT ![model_name].error_count = @ + 1,
                   ![model_name].total_requests = @ + 1]

AddError(ledger, model_name) ==
    [ledger EXCEPT ![model_name].error_count = @ + 1]

(***************************************************************************)
(* Calls on the model manager                                              *)
(***************************************************************************)
NoValue == [kind |-> "none"]

IdleCall ==
    [pc |-> "idle", op |-> None, model_type |-> None, stream |-> FALSE, counted |-> 0,
     sent |-> FALSE, overlapped |-> FALSE, prov |-> NoValue, result |-> NoValue,
     stream_end |-> "none", input |-> <<>>, via |-> None, to_closed |-> FALSE,
     request |-> [tools |-> <<>>, stream |-> FALSE]]

\* Inputs of the calls
Text(n) == [role |-> "user", kind |-> "str", content |-> n]
MessageLists == {<<Text(1)>>, <<Text(8192)>>, <<Text(128000), Text(72001)>>}
TypeChoices == {None, "chat", "embeddings"}
EmbeddingTexts == {<<3>>, <<1, 1>>, <<8192>>}
\* What the provider reports for a completed request:
\* <<prompt tokens, completion tokens, latency in ms>>
ProviderUsages == {<<2, 1, 1>>, <<3, 2, 4>>}

RECURSIVE SumSeq(_)
SumSeq(q) == IF q = <<>> THEN 0 ELSE Head(q) + SumSeq(Tail(q))

OthersAwaiting(c) ==
    \E d \in Calls \ {c} :
        calls[d].pc = "awaiting" /\ calls[d].model_type = calls[c].model_type

\* initialize(), up to the await on the connectivity tests (lines 152-165)
InitializeClient ==
    /\ client = "none"
    /\ client' = "open"
    /\ UNCHANGED <<initialized, usage_stats, calls>>
    /\ UNCHANGED <<svars, fvars>>

\* initialize(), after the connectivity tests, whose failures are only logged
InitializeDone ==
    /\ client # "none"
    /\ ~initialized
    /\ initialized' = TRUE
    /\ UNCHANGED <<client, usage_stats, calls>>
    /\ UNCHANGED <<svars, fvars>>

\* The optional parameters of the provider request (lines 303-311): tools
\* when functions were given and the profile supports them, stream when it
\* was asked for and the profile supports it.
RequestParams(mt, stream, functions) ==
    [tools  |-> IF functions # <<>> /\ Models(mt).supports_functions
                THEN [k \in 1..Len(functions) |->
                         [type |-> "function", function |-> functions[k]]]
                ELSE <<>>,
     stream |-> stream /\ Models(mt).supports_streaming]

\* chat_completion up to the provider call (lines 280-314)
ChatCompletionWith(c, messages, model_type, stream, functions) ==
    /\ calls[c].pc = "idle"
    /\ IF ~initialized
       THEN calls' = [calls EXCEPT ![c].pc = "done", ![c].op = "chat",
                        ![c].result = [kind |-> "ModelInitializationError"]]
       ELSE LET mt == IF model_type = None
                      THEN select_optimal_model(<<"c","h","a","t">>, "medium", "normal")
                      ELSE model_type
                v == validate_input_length(messages, mt)
            IN IF v.kind # "True"
               THEN calls' = [calls EXCEPT ![c].pc = "done", ![c].op = "chat",
                                ![c].model_type = mt, ![c].result = v]
               ELSE calls' = [calls EXCEPT ![c].pc = "awaiting", ![c].op = "chat",
                                ![c].model_type = mt, ![c].stream = stream,
                                ![c].counted = MessagesTokens(messages),
                                ![c].input = messages,
                                ![c].request = RequestParams(mt, stream, functions),
                                ![c].to_closed = (client = "closed"),
                                ![c].sent = TRUE]
    /\ UNCHANGED <<initialized, client, usage_stats>>
    /\ UNCHANGED <<svars, fvars>>

\* chat_completion called without functions (the default of line 279)
ChatCompletion(c, messages, model_type, stream) ==
    ChatCompletionWith(c, messages, model_type, stream, <<>>)

\* chat_completion after a provider response (lines 316-352, and the except
\* block when the accounting raises); called by analyze_image, the string
\* under "content" is what comes back (452). A client that was closed when
\* the request was made gives no response.
ChatProviderResponds(c, usage) ==
    /\ calls[c].pc = "awaiting"
    /\ calls[c].op = "chat"
    /\ ~calls[c].to_closed
    /\ LET mt == calls[c].model_type
           prompt_tokens == usage[1]
           completion_tokens == usage[2]
           ms == usage[3]
           got == [calls[c] EXCEPT
                     !.pc = "done", !.overlapped = OthersAwaiting(c),
                     !.prov = [kind |-> "usage", prompt_tokens |-> prompt_tokens,
                               completion_tokens |-> completion_tokens, ms |-> ms]]
           u == _update_usage_stats(usage_stats, mt, prompt_tokens, completion_tokens, ms)
       IN IF calls[c].stream
          THEN /\ calls' = [calls EXCEPT ![c] =
                              [got EXCEPT !.pc = "streaming",
                                          !.result = [kind |-> "stream",
                                                      processing_time |-> ms]]]
               /\ UNCHANGED usage_stats
          ELSE IF u.raised
          THEN /\ usage_stats' = AddError(u.ledger, mt)
               /\ calls' = [calls EXCEPT ![c] =
                              [got EXCEPT !.result =
                                  ClassifyChatError(mt, StopIterationMessage,
                                                    calls[c].input)]]
          ELSE /\ usage_stats' = u.ledger
               /\ calls' = [calls EXCEPT ![c] =
                              [got EXCEPT !.result =
                                  IF calls[c].via = "analyze_image"
                                  THEN [kind |-> "str", value |-> "content"]
                                  ELSE [kind |-> "result", content |-> "content",
                                        prompt_tokens |-> prompt_tokens,
                                        completion_tokens |-> completion_tokens,
                                        processing_time |-> ms,
                                        model |-> Models(mt).name]]]
    /\ UNCHANGED <<initialized, client>>
    /\ UNCHANGED <<svars, fvars>>

\* The caller reads the response that a stream=True call returned under
\* "stream" (lines 319-321) to its end, or until it fails: the manager handed
\* the raw response over and has no code that runs at that point.
StreamEnds(c, completed) ==
    /\ calls[c].pc = "streaming"
    /\ calls' = [calls EXCEPT ![c].pc = "done",
                              ![c].stream_end = IF completed THEN "completed"
                                                ELSE "failed"]
    /\ UNCHANGED <<initialized, client, usage_stats>>
    /\ UNCHANGED <<svars, fvars>>

\* chat_completion after the provider call failed (lines 354-365)
ChatProviderFails(c, error) ==
    /\ calls[c].pc = "awaiting"
    /\ calls[c].op = "chat"
    /\ usage_stats' = AddError(usage_stats, calls[c].model_type)
    /\ calls' = [calls EXCEPT ![c].pc = "done",
                              ![c].prov = [kind |-> "error", message |-> error.message,
                                           attempts |-> error.attempts],
                              ![c].result = ClassifyChatError(calls[c].model_type,
                                                              error.message,
                                                              calls[c].input)]
    /\ UNCHANGED <<initialized, client>>
    /\ UNCHANGED <<svars, fvars>>

\* generate_embeddings without the test of initialized
GenerateEmbeddingsUnchecked(c, texts) ==
    /\ calls[c].pc = "idle"
    /\ calls' = [calls EXCEPT ![c].pc = "awaiting", ![c].op = "embeddings",
                     ![c].model_type = "embeddings", ![c].sent = TRUE,
                     ![c].input = texts,
                     ![c].to_closed = (client = "closed"),
                     ![c].counted = SumSeq([k \in 1..Len(texts) |->
                                               count_tokens(texts[k])])]
    /\ UNCHANGED <<initialized, client, usage_stats>>
    /\ UNCHANGED <<svars, fvars>>

\* generate_embeddings up to the provider call (lines 370-385)
GenerateEmbeddings(c, texts) ==
    /\ calls[c].pc = "idle"
    /\ IF ~initialized
       THEN calls' = [calls EXCEPT ![c].pc = "done", ![c].op = "embeddings",
                        ![c].result = [kind |-> "ModelInitializationError"]]
       ELSE calls' = [calls EXCEPT ![c].pc = "awaiting", ![c].op = "embeddings",
                        ![c].model_type = "embeddings", ![c].sent = TRUE,
                        ![c].input = texts,
                        ![c].to_closed = (client = "closed"),
                        ![c].counted = SumSeq([k \in 1..Len(texts) |->
                                                  count_tokens(texts[k])])]
    /\ UNCHANGED <<initialized, client, usage_stats>>
    /\ UNCHANGED <<svars, fvars>>

\* generate_embeddings after a provider response (lines 387-413, and the
\* except block when the accounting raises)
EmbeddingsProviderResponds(c, usage) ==
    /\ calls[c].pc = "awaiting"
    /\ calls[c].op = "embeddings"
    /\ ~calls[c].to_closed
    /\ LET total_tokens == calls[c].counted
           ms == usage[3]
           got == [calls[c] EXCEPT
                     !.pc = "done", !.overlapped = OthersAwaiting(c),
                     !.prov = [kind |-> "usage", prompt_tokens |-> total_tokens,
                               completion_tokens |-> 0, ms |-> ms]]
           u == _update_usage_stats(usage_stats, "embeddings", total_tokens, 0, ms)
       IN IF u.raised
          THEN /\ usage_stats' = AddError(u.ledger, "embeddings")
               /\ calls' = [calls EXCEPT ![c] =
                              [got EXCEPT !.result =
                                  ClassifyEmbeddingsError(StopIterationMessage,
                                                          calls[c].input)]]
          ELSE /\ usage_stats' = u.ledger
               /\ calls' = [calls EXCEPT ![c] =
                              [got EXCEPT !.result = [kind |-> "embeddings"]]]
    /\ UNCHANGED <<initialized, client>>
    /\ UNCHANGED <<svars, fvars>>

\* generate_embeddings after the provider call failed (lines 415-419)
EmbeddingsProviderFails(c, error) ==
    /\ calls[c].pc = "awaiting"
    /\ calls[c].op = "embeddings"
    /\ usage_stats' = AddError(usage_stats, "embeddings")
    /\ calls' = [calls EXCEPT ![c].pc = "done",
                              ![c].prov = [kind |-> "error", message |-> error.message,
                                           attempts |-> error.attempts],
                              ![c].result = ClassifyEmbeddingsError(error.message,
                                                                    calls[c].input)]
    /\ UNCHANGED <<initialized, client>>
    /\ UNCHANGED <<svars, fvars>>

\* A cancellation handled as the provider failures are
CancelledCounted(c) ==
    /\ calls[c].pc = "awaiting"
    /\ usage_stats' = AddError(usage_stats, calls[c].model_type)
    /\ calls' = [calls EXCEPT ![c].pc = "done",
                              ![c].prov = [kind |-> "cancelled"],
                              ![c].result = [kind |-> "CancelledError"]]
    /\ UNCHANGED <<initialized, client>>
    /\ UNCHANGED <<svars, fvars>>

\* The caller cancels chat_completion or generate_embeddings (or its timeout
\* does) while the call is suspended in the await on the provider (lines 314,
\* 382): CancelledError is raised at the await; it is a BaseException, which
\* the except Exception clauses (354, 415) let through, and there is no
\* finally clause.
Cancelled(c) ==
    /\ calls[c].pc = "awaiting"
    /\ calls' = [calls EXCEPT ![c].pc = "done",
                              ![c].prov = [kind |-> "cancelled"],
                              ![c].result = [kind |-> "CancelledError"]]
    /\ UNCHANGED <<initialized, client, usage_stats>>
    /\ UNCHANGED <<svars, fvars>>

(***************************************************************************)
(* Calls of the pure functions                                             *)
(***************************************************************************)
NoProbe == [fn |-> None]

\* Task types, each with the hints select_optimal_model is to read in it:
\* "embedding", "vision", "audio" and "reasoning" name a task exactly;
\* "image" and "speech" count wherever they occur, in any letter case.
TaskTypes ==
    {[text |-> <<"e","m","b","e","d","d","i","n","g">>, hints |-> {"embedding"}],
     [text |-> <<"e","m","b","e","d","d","i","n","g","s">>, hints |-> {}],
     [text |-> <<"v","i","s","i","o","n">>, hints |-> {"vision"}],
     [text |-> <<"V","i","s","i","o","n">>, hints |-> {}],
     [text |-> <<"p","r","o","d","u","c","t"," ","i","m","a","g","e">>, hints |-> {"vision"}],
     [text |-> <<"I","M","A","G","E">>, hints |-> {"vision"}],
     [text |-> <<"a","u","d","i","o">>, hints |-> {"audio"}],
     [text |-> <<"s","p","e","e","c","h"," ","t","o"," ","t","e","x","t">>, hints |-> {"audio"}],
     [text |-> <<"i","m","a","g","e"," ","a","n","d"," ","s","p","e","e","c","h">>, hints |-> {"vision", "audio"}],
     [text |-> <<"r","e","a","s","o","n","i","n","g">>, hints |-> {"reasoning"}],
     [text |-> <<"c","h","a","t">>, hints |-> {}],
     [text |-> <<>>, hints |-> {}]}
Complexities == {"low", "medium", "high", "extreme"}
Speeds == {"fast", "normal", "slow"}

\* Message contents: a string, a list of parts, or none
Parts(n) ==
    [role |-> "user", kind |-> "list",
     content |-> <<[type |-> "text", text |-> n], [type |-> "image_url"]>>]
ImageOnly == [role |-> "user", kind |-> "list", content |-> <<[type |-> "image_url"]>>]
NoContent == [role |-> "assistant", kind |-> "none"]

\* Message lists, each with the sum of the tokens of its string contents and
\* of its text parts
CountedMessages ==
    {[messages |-> <<>>, counted |-> 0],
     [messages |-> <<Text(1)>>, counted |-> 1],
     [messages |-> <<ImageOnly>>, counted |-> 0],
     [messages |-> <<Text(8190), Parts(1)>>, counted |-> 8191],
     [messages |-> <<NoContent, Text(8191), Parts(1)>>, counted |-> 8192],
     [messages |-> <<Text(128000), ImageOnly>>, counted |-> 128000],
     [messages |-> <<Parts(127999), Parts(2)>>, counted |-> 128001],
     [messages |-> <<Text(100000), Parts(50000), Text(50000)>>, counted |-> 200000],
     [messages |-> <<Text(128000), Text(72001)>>, counted |-> 200001]}
Profiles == {"chat", "embeddings", "reasoning"}

InitFunctions ==
    \/ \E t \in TaskTypes, c \in Complexities, q \in Speeds :
          probe = [fn |-> "select_optimal_model", task |-> t, complexity |-> c,
                   speed_requirement |-> q, returned |-> FALSE]
    \/ \E m \in CountedMessages, mt \in Profiles :
          probe = [fn |-> "validate_input_length", input |-> m, model_type |-> mt,
                   returned |-> FALSE]

\* A call of select_optimal_model (lines 218-241)
SelectOptimalModel ==
    /\ probe.fn = "select_optimal_model" /\ ~probe.returned
    /\ probe' = [fn |-> probe.fn, task |-> probe.task, complexity |-> probe.complexity,
                 speed_requirement |-> probe.speed_requirement, returned |-> TRUE,
                 out |-> select_optimal_model(probe.task.text, probe.complexity,
                                              probe.speed_requirement)]
    /\ UNCHANGED <<mvars, svars>>

\* A call of validate_input_length (lines 251-273)
ValidateInputLength ==
    /\ probe.fn = "validate_input_length" /\ ~probe.returned
    /\ probe' = [fn |-> probe.fn, input |-> probe.input, model_type |-> probe.model_type,
                 returned |-> TRUE,
                 out |-> validate_input_length(probe.input.messages, probe.model_type)]
    /\ UNCHANGED <<mvars, svars>>

\* A call of get_status (lines 480-504); seen is the ledger it read.
GetStatus ==
    /\ probe = NoProbe
    /\ probe' = [fn |-> "get_status", returned |-> TRUE, seen |-> usage_stats,
                 out |-> get_status(initialized, usage_stats)]
    /\ UNCHANGED <<mvars, svars>>

(***************************************************************************)
(* Image analysis and the end of the client                                *)
(***************************************************************************)
\* analyze_image (lines 421-452): its own test of initialized, then
\* chat_completion on the vision profile, up to the provider call, with one
\* message of a text part (the prompt) and an image part.
AnalyzeImage(c, prompt) ==
    /\ calls[c].pc = "idle"
    /\ IF ~initialized
       THEN calls' = [calls EXCEPT ![c].pc = "done", ![c].op = "analyze_image",
                        ![c].result = [kind |-> "ModelInitializationError"]]
       ELSE LET messages == <<Parts(prompt)>>
                v == validate_input_length(messages, "vision")
            IN IF v.kind # "True"
               THEN calls' = [calls EXCEPT ![c].pc = "done", ![c].op = "chat",
                                ![c].via = "analyze_image",
                                ![c].model_type = "vision", ![c].result = v]
               ELSE calls' = [calls EXCEPT ![c].pc = "awaiting", ![c].op = "chat",
                                ![c].via = "analyze_image",
                                ![c].model_type = "vision",
                                ![c].counted = MessagesTokens(messages),
                                ![c].input = messages,
                                ![c].request = RequestParams("vision", FALSE, <<>>),
                                ![c].to_closed = (client = "closed"),
                                ![c].sent = TRUE]
    /\ UNCHANGED <<initialized, client, usage_stats>>
    /\ UNCHANGED <<svars, fvars>>

\* cleanup (lines 506-511): closes the client when there is one; initialized
\* and the client attribute stay as they are.
Cleanup ==
    /\ client # "none"
    /\ client' = "closed"
    /\ UNCHANGED <<initialized, usage_stats, calls>>
    /\ UNCHANGED <<svars, fvars>>

(***************************************************************************)
(* Session store                                                           *)
(***************************************************************************)
CONVERSATION_TIMEOUT_MINUTES == 30
CACHE_TTL_SECONDS == 3600

default_ttl == CACHE_TTL_SECONDS
session_ttl == CONVERSATION_TIMEOUT_MINUTES * 60

SessionIds == {"s1", "s2"}
Procs == 1..MaxProcs
NoRec == [kind |-> "none"]
Never == 0 - 1

\* Python values the store operations take and return
PyNone == [kind |-> "None"]
PyBool(b) == [kind |-> "bool", value |-> b]
PyDict(d) == [kind |-> "dict", value |-> d]
Truthy(v) ==
    CASE v.kind = "None" -> FALSE
      [] v.kind = "bool" -> v.value
      [] v.kind = "dict" -> DOMAIN v.value # {}
      [] v.kind = "str" -> TRUE
      [] OTHER -> TRUE

\* json.dumps / json.loads of a session dictionary: a string holding the
\* document; the dictionaries stored here survive the round trip unchanged.
json_dumps(data) == [kind |-> "str", doc |-> data]
json_loads(value) == PyDict(value.doc)

\* Inputs of the operations
UserDatas == {PyDict([user_id |-> "u1"])}
Hi == [role |-> "user", content |-> "hi"]
MessagesUpdate == [messages |-> <<Hi>>]
UpdateChoices == {MessagesUpdate}
StateUpdate == [conversation_state |-> "qualified"]
RaceUpdates == {MessagesUpdate, StateUpdate}

\* The cache server: setex, get, delete, keys; a key is gone once its time
\* to live has run out.
redis_setex(st, key, ttl, value) ==
    [st EXCEPT ![key] = [kind |-> "rec", value |-> value, expire_at |-> now + ttl]]

redis_get(st, key) == IF st[key].kind = "rec" THEN st[key].value ELSE PyNone

redis_delete(st, key) == [st EXCEPT ![key] = NoRec]

redis_keys(st) == {k \in SessionIds : st[k].kind = "rec"}

Expire(st, t) ==
    [k \in SessionIds |->
        IF st[k].kind = "rec" /\ st[k].expire_at <= t THEN NoRec ELSE st[k]]

cache_set_default_ttl(st, key, value, ttl, ok) ==
    IF ok THEN redis_setex(st, key, default_ttl, value) ELSE st

\* CacheManager.set (lines 233-241): the cache it leaves; ok = FALSE is the
\* cache raising, which set answers with False. ttl = 0 stands for None.
cache_set(st, key, value, ttl, ok) ==
    IF ok THEN redis_setex(st, key, IF ttl = 0 THEN default_ttl ELSE ttl, value) ELSE st

\* CacheManager.get_json (lines 282-292) over CacheManager.get (223-231)
cache_get_json(st, key, ok) ==
    LET value == IF ok THEN redis_get(st, key) ELSE PyNone
    IN IF Truthy(value) THEN json_loads(value) ELSE PyNone

\* dict.update
DictUpdate(d, u) ==
    [f \in (DOMAIN d) \cup (DOMAIN u) |-> IF f \in DOMAIN u THEN u[f] ELSE d[f]]

IdleProc == [pc |-> "idle", id |-> None, data |-> PyNone, updates |-> <<>>]

InFlight(p) == procs[p].pc # "idle"
NoneInFlight == \A p \in Procs : ~InFlight(p)

\* The operation returns: its slot is free again, and ret holds its result.
Return(op, id, value) == [op |-> op, id |-> id, value |-> value]
NoReturn == Return(None, None, NoRec)

\* The session whose history is kept
Watched == "s2"

NoScen == [stage |-> 0, t0 |-> 0, at |-> 0, over |-> FALSE]

WriteSucceeded(id, ok) == IF ok /\ id = Watched THEN now ELSE last_ok

\* History of a sequential run: 1 create in flight, 2 created, 3 update with
\* the message in flight, 4 updated, 5 get in flight, 6 fetched. The clock
\* advances between the operations; any other operation ends the run. over:
\* the create was called when the cache held a record with messages.
ScenStart(op, id, updates) ==
    IF op = "create" /\ NoneInFlight /\ id = Watched
    THEN [stage |-> 1, t0 |-> now, at |-> now,
          over |-> /\ store[id].kind = "rec"
                   /\ store[id].value.doc.messages # <<>>]
    ELSE IF op = "update" /\ NoneInFlight /\ scen.stage = 2 /\ id = Watched
            /\ updates = MessagesUpdate /\ now > scen.at
    THEN [scen EXCEPT !.stage = 3]
    ELSE IF op = "get" /\ NoneInFlight /\ scen.stage = 4 /\ id = Watched
            /\ now > scen.at
    THEN [scen EXCEPT !.stage = 5]
    ELSE NoScen

ScenEnd(success) ==
    IF scen.stage \in {1, 3, 5}
    THEN (IF success THEN [scen EXCEPT !.stage = @ + 1, !.at = now] ELSE NoScen)
    ELSE scen

\* Whether an operation on the watched session is in flight
WatchedInFlight == \E p \in Procs : InFlight(p) /\ procs[p].id = Watched

\* The clock advances, at most to limit ticks; the cache drops the keys whose
\* time to live ran out. lapsed records that the watched session went longer
\* than the session timeout without a successful write, and whether an
\* operation on it was in flight at that moment.
Tick(limit) ==
    /\ now < limit * TickSeconds
    /\ now' = now + TickSeconds
    /\ store' = Expire(store, now')
    /\ lapsed' = IF lapsed = "no" /\ last_ok # Never
                     /\ now' - last_ok > CONVERSATION_TIMEOUT_MINUTES * 60
                  THEN (IF WatchedInFlight THEN "busy" ELSE "quiet")
                  ELSE lapsed
    /\ ret' = NoReturn
    /\ UNCHANGED <<procs, scen, last_ok>>
    /\ UNCHANGED <<mvars, fvars>>

\* create_session keeping the record that it finds in the cache
CreateSessionKeeping(p, session_id, user_data) ==
    /\ ~InFlight(p)
    /\ procs' = [procs EXCEPT ![p] =
                   [IdleProc EXCEPT
                       !.pc = "create_set", !.id = session_id,
                       !.data = IF store[session_id].kind = "rec"
                                THEN json_loads(store[session_id].value)
                                ELSE PyDict([session_id |-> session_id,
                                             created_at |-> now,
                                             last_activity |-> now,
                                             user_data |-> IF Truthy(user_data)
                                                           THEN user_data.value ELSE <<>>,
                                             conversation_state |-> "greeting",
                                             messages |-> <<>>,
                                             context |-> <<>>])]]
    /\ scen' = ScenStart("create", session_id, <<>>)
    /\ lapsed' = IF session_id = Watched THEN "no" ELSE lapsed
    /\ ret' = NoReturn
    /\ UNCHANGED <<now, store, last_ok>>
    /\ UNCHANGED <<mvars, fvars>>

\* create_session up to the await on the cache (lines 339-350)
CreateSession(p, session_id, user_data) ==
    /\ ~InFlight(p)
    /\ procs' = [procs EXCEPT ![p] =
                   [IdleProc EXCEPT
                       !.pc = "create_set", !.id = session_id,
                       !.data = PyDict([session_id |-> session_id,
                                        created_at |-> now,
                                        last_activity |-> now,
                                        user_data |-> IF Truthy(user_data)
                                                      THEN user_data.value ELSE <<>>,
                                        conversation_state |-> "greeting",
                                        messages |-> <<>>,
                                        context |-> <<>>])]]
    /\ scen' = ScenStart("create", session_id, <<>>)
    /\ lapsed' = IF session_id = Watched THEN "no" ELSE lapsed
    /\ ret' = NoReturn
    /\ UNCHANGED <<now, store, last_ok>>
    /\ UNCHANGED <<mvars, fvars>>

\* The cache executes the write of create_session, which returns (350-357)
CreateSet(p, ok) ==
    /\ procs[p].pc = "create_set"
    /\ store' = cache_set(store, procs[p].id, json_dumps(procs[p].data.value),
                          session_ttl, ok)
    /\ procs' = [procs EXCEPT ![p] = IdleProc]
    /\ ret' = Return("create", procs[p].id, PyBool(ok))
    /\ scen' = ScenEnd(ok)
    /\ last_ok' = WriteSucceeded(procs[p].id, ok)
    /\ UNCHANGED <<now, lapsed>>
    /\ UNCHANGED <<mvars, fvars>>

\* get_session without the refresh of last_activity
Unrefreshed(session_data) == session_data

\* The refreshed copy get_session builds from what the cache returned (366)
Refreshed(session_data) ==
    PyDict([session_data.value EXCEPT !.last_activity = now])

\* get_session letting the error of the cache through
GetSessionRaising(p, session_id, ok) ==
    /\ ~InFlight(p)
    /\ LET session_data == cache_get_json(store, session_id, ok)
       IN IF Truthy(session_data)
          THEN /\ procs' = [procs EXCEPT ![p] =
                              [IdleProc EXCEPT !.pc = "get_write", !.id = session_id,
                                               !.data = Refreshed(session_data)]]
               /\ scen' = ScenStart("get", session_id, <<>>)
               /\ ret' = NoReturn
          ELSE /\ procs' = procs
               /\ scen' = NoScen
               /\ ret' = Return("get", session_id,
                                IF ok THEN PyNone
                                ELSE [kind |-> "exception", type |-> "ConnectionError"])
    /\ UNCHANGED <<now, store, last_ok, lapsed>>
    /\ UNCHANGED <<mvars, fvars>>

\* get_session: the cache answers the read; get_session refreshes
\* last_activity and sends the write, or returns None (lines 361-369)
GetSession(p, session_id, ok) ==
    /\ ~InFlight(p)
    /\ LET session_data == cache_get_json(store, session_id, ok)
       IN IF Truthy(session_data)
          THEN /\ procs' = [procs EXCEPT ![p] =
                              [IdleProc EXCEPT !.pc = "get_write", !.id = session_id,
                                               !.data = Refreshed(session_data)]]
               /\ scen' = ScenStart("get", session_id, <<>>)
               /\ ret' = NoReturn
          ELSE /\ procs' = procs
               /\ scen' = NoScen
               /\ ret' = Return("get", session_id, PyNone)
    /\ UNCHANGED <<now, store, last_ok, lapsed>>
    /\ UNCHANGED <<mvars, fvars>>

\* The cache executes the write of get_session, which returns the record
\* whether or not the write succeeded (lines 367-369)
GetWrite(p, ok) ==
    /\ procs[p].pc = "get_write"
    /\ store' = cache_set(store, procs[p].id, json_dumps(procs[p].data.value),
                          session_ttl, ok)
    /\ procs' = [procs EXCEPT ![p] = IdleProc]
    /\ ret' = Return("get", procs[p].id, procs[p].data)
    /\ scen' = ScenEnd(TRUE)
    /\ last_ok' = WriteSucceeded(procs[p].id, ok)
    /\ UNCHANGED <<now, lapsed>>
    /\ UNCHANGED <<mvars, fvars>>

\* update_session creating the record when it finds none
UpdateSessionUpsert(p, session_id, updates, ok) ==
    /\ ~InFlight(p)
    /\ LET session_data == cache_get_json(store, session_id, ok)
           fresh == PyDict([session_id |-> session_id, created_at |-> now,
                            last_activity |-> now, user_data |-> <<>>,
                            conversation_state |-> "greeting", messages |-> <<>>,
                            context |-> <<>>])
       IN procs' = [procs EXCEPT ![p] =
                      [IdleProc EXCEPT !.pc = "update_refresh", !.id = session_id,
                                       !.data = IF Truthy(session_data)
                                                THEN Refreshed(session_data) ELSE fresh,
                                       !.updates = updates]]
    /\ scen' = ScenStart("update", session_id, updates)
    /\ ret' = NoReturn
    /\ UNCHANGED <<now, store, last_ok, lapsed>>
    /\ UNCHANGED <<mvars, fvars>>

\* update_session: the cache answers the read of its get_session, which
\* sends its write; or update_session returns False (lines 373-375)
UpdateSession(p, session_id, updates, ok) ==
    /\ ~InFlight(p)
    /\ LET session_data == cache_get_json(store, session_id, ok)
       IN IF Truthy(session_data)
          THEN /\ procs' = [procs EXCEPT ![p] =
                              [IdleProc EXCEPT !.pc = "update_refresh",
                                               !.id = session_id,
                                               !.data = Refreshed(session_data),
                                               !.updates = updates]]
               /\ scen' = ScenStart("update", session_id, updates)
               /\ ret' = NoReturn
          ELSE /\ procs' = procs
               /\ scen' = NoScen
               /\ ret' = Return("update", session_id, PyBool(FALSE))
    /\ UNCHANGED <<now, store, last_ok, lapsed>>
    /\ UNCHANGED <<mvars, fvars>>

\* update_session without session_data.update(updates)
UpdatedWithoutUpdates(session_data, updates) ==
    PyDict([session_data.value EXCEPT !.last_activity = now])

\* What update_session writes: the record with the updates applied and
\* last_activity set to the current time (lines 377-378)
Updated(session_data, updates) ==
    PyDict([DictUpdate(session_data.value, updates) EXCEPT !.last_activity = now])

\* The cache executes the write of get_session; update_session applies the
\* updates and sends its own write (lines 377-381)
UpdateRefresh(p, ok) ==
    /\ procs[p].pc = "update_refresh"
    /\ store' = cache_set(store, procs[p].id, json_dumps(procs[p].data.value),
                          session_ttl, ok)
    /\ procs' = [procs EXCEPT ![p].pc = "update_write",
                              ![p].data = Updated(procs[p].data, procs[p].updates)]
    /\ last_ok' = WriteSucceeded(procs[p].id, ok)
    /\ ret' = NoReturn
    /\ UNCHANGED <<now, scen, lapsed>>
    /\ UNCHANGED <<mvars, fvars>>

\* update_session answering True whatever the cache did with its write
UpdateWriteAlwaysTrue(p, ok) ==
    /\ procs[p].pc = "update_write"
    /\ store' = cache_set(store, procs[p].id, json_dumps(procs[p].data.value),
                          session_ttl, ok)
    /\ procs' = [procs EXCEPT ![p] = IdleProc]
    /\ ret' = Return("update", procs[p].id, PyBool(TRUE))
    /\ scen' = ScenEnd(ok)
    /\ last_ok' = WriteSucceeded(procs[p].id, ok)
    /\ UNCHANGED <<now, lapsed>>
    /\ UNCHANGED <<mvars, fvars>>

\* The cache executes the write of update_session, which returns (381)
UpdateWrite(p, ok) ==
    /\ procs[p].pc = "update_write"
    /\ store' = cache_set(store, procs[p].id, json_dumps(procs[p].data.value),
                          session_ttl, ok)
    /\ procs' = [procs EXCEPT ![p] = IdleProc]
    /\ ret' = Return("update", procs[p].id, PyBool(ok))
    /\ scen' = ScenEnd(ok)
    /\ last_ok' = WriteSucceeded(procs[p].id, ok)
    /\ UNCHANGED <<now, lapsed>>
    /\ UNCHANGED <<mvars, fvars>>

\* delete_session answering True whenever the cache executed the delete
DeleteSessionAlwaysTrue(p, session_id, ok) ==
    /\ ~InFlight(p)
    /\ store' = IF ok THEN redis_delete(store, session_id) ELSE store
    /\ ret' = Return("delete", session_id, PyBool(ok))
    /\ scen' = NoScen
    /\ UNCHANGED <<now, procs, last_ok, lapsed>>
    /\ UNCHANGED <<mvars, fvars>>

\* delete_session: the cache executes the delete; CacheManager.delete returns
\* bool(result), or False when the cache raised (lines 243-251, 385-391)
DeleteSession(p, session_id, ok) ==
    /\ ~InFlight(p)
    /\ store' = IF ok THEN redis_delete(store, session_id) ELSE store
    /\ ret' = Return("delete", session_id,
                     PyBool(ok /\ store[session_id].kind = "rec"))
    /\ scen' = NoScen
    /\ UNCHANGED <<now, procs, last_ok, lapsed>>
    /\ UNCHANGED <<mvars, fvars>>

\* The client is created with decode_responses=True (line 70): the keys it
\* returns are str, and str has no decode().
decode_responses == TRUE

\* cleanup_expired_sessions reading the sessions as get_session does
CleanupRefreshing(p, ok) ==
    /\ ~InFlight(p)
    /\ store' = [k \in SessionIds |->
                    IF ok /\ store[k].kind = "rec"
                    THEN [kind |-> "rec",
                          value |-> json_dumps(Refreshed(json_loads(store[k].value)).value),
                          expire_at |-> now + session_ttl]
                    ELSE store[k]]
    /\ ret' = Return("cleanup", None,
                     [kind |-> "int", value |-> 0,
                      logged |-> IF ok THEN "none" ELSE "ConnectionError",
                      again |-> ret.op = "cleanup"])
    /\ scen' = NoScen
    /\ UNCHANGED <<now, procs, last_ok, lapsed>>
    /\ UNCHANGED <<mvars, fvars>>

\* cleanup_expired_sessions answering the number of keys it found
CleanupReturningKeys(p, ok) ==
    /\ ~InFlight(p)
    /\ LET keys == IF ok THEN redis_keys(store) ELSE {}
       IN ret' = Return("cleanup", None,
                        [kind |-> "int", value |-> Cardinality(keys),
                         logged |-> IF ok THEN "none" ELSE "ConnectionError",
                         again |-> ret.op = "cleanup"])
    /\ scen' = NoScen
    /\ UNCHANGED <<now, store, procs, last_ok, lapsed>>
    /\ UNCHANGED <<mvars, fvars>>

\* cleanup_expired_sessions: the cache answers keys(); the loop calls
\* key.decode() on its first key, the AttributeError is caught by the except
\* clause and 0 is returned; with no key, or with the cache raising, 0 is
\* returned as well (lines 395-416). again (history): the step before was a
\* cleanup_expired_sessions as well.
CleanupExpiredSessions(p, ok) ==
    /\ ~InFlight(p)
    /\ LET keys == IF ok THEN redis_keys(store) ELSE {}
           logged == IF ~ok THEN "ConnectionError"
                     ELSE IF keys # {} /\ decode_responses THEN "AttributeError"
                     ELSE "none"
       IN ret' = Return("cleanup", None,
                        [kind |-> "int", value |-> 0, logged |-> logged,
                         again |-> ret.op = "cleanup"])
    /\ scen' = NoScen
    /\ UNCHANGED <<now, store, procs, last_ok, lapsed>>
    /\ UNCHANGED <<mvars, fvars>>

InitSession ==
    /\ now = 0
    /\ store = [k \in SessionIds |-> NoRec]
    /\ procs = [p \in Procs |-> IdleProc]
    /\ ret = NoReturn
    /\ scen = NoScen
    /\ last_ok = Never
    /\ lapsed = "no"

(***************************************************************************)
(* Specifications                                                          *)
(***************************************************************************)
InitManager ==
    /\ initialized = FALSE
    /\ client = "none"
    /\ usage_stats = [mt \in ModelTypes |-> ModelUsage]
    /\ calls = [c \in Calls |-> IdleCall]

Init == InitManager /\ InitSession /\ probe = NoProbe

NextManager ==
    \/ InitializeClient
    \/ InitializeDone
    \/ \E c \in Calls, messages \in MessageLists, mt \in TypeChoices, stream \in BOOLEAN :
          ChatCompletion(c, messages, mt, stream)
    \/ \E c \in Calls, usage \in ProviderUsages : ChatProviderResponds(c, usage)
    \/ \E c \in Calls, completed \in BOOLEAN : StreamEnds(c, completed)
    \/ \E c \in Calls, e \in ProviderErrors : ChatProviderFails(c, e)
    \/ \E c \in Calls, texts \in EmbeddingTexts : GenerateEmbeddings(c, texts)
    \/ \E c \in Calls, usage \in ProviderUsages : EmbeddingsProviderResponds(c, usage)
    \/ \E c \in Calls, e \in ProviderErrors : EmbeddingsProviderFails(c, e)

SpecManager == Init /\ [][NextManager]_vars

\* Calls on the chat and embeddings profiles, one input each, with every way
\* they end: a response, a failure of the provider, a cancellation
NextOutcomes ==
    \/ InitializeClient
    \/ InitializeDone
    \/ \E c \in Calls : ChatCompletion(c, <<Text(1)>>, None, FALSE)
    \/ \E c \in Calls, usage \in ProviderUsages : ChatProviderResponds(c, usage)
    \/ \E c \in Calls, e \in ProviderErrors : ChatProviderFails(c, e)
    \/ \E c \in Calls : GenerateEmbeddings(c, <<1, 1>>)
    \/ \E c \in Calls, usage \in ProviderUsages : EmbeddingsProviderResponds(c, usage)
    \/ \E c \in Calls, e \in ProviderErrors : EmbeddingsProviderFails(c, e)
    \/ \E c \in Calls : Cancelled(c)

SpecOutcomes == Init /\ [][NextOutcomes]_vars

\* chat_completion with and without stream and functions, on a profile that
\* supports both, one that supports functions only and one that supports
\* neither
FeatureProfiles == {"chat", "audio", "reasoning"}

FunctionLists == {<<>>, <<"f">>}

NextFeatures ==
    \/ InitializeClient
    \/ InitializeDone
    \/ \E c \in Calls, mt \in FeatureProfiles, stream \in BOOLEAN,
          functions \in FunctionLists :
          ChatCompletionWith(c, <<Text(1)>>, mt, stream, functions)
    \/ \E c \in Calls : ChatProviderResponds(c, <<2, 1, 1>>)
    \/ \E c \in Calls, completed \in BOOLEAN : StreamEnds(c, completed)
    \/ \E c \in Calls, e \in ProviderErrors : ChatProviderFails(c, e)

SpecFeatures == Init /\ [][NextFeatures]_vars

\* The three operations of the manager, one input each, before, during and
\* after initialize(), and after cleanup()
NextLifecycle ==
    \/ InitializeClient
    \/ InitializeDone
    \/ Cleanup
    \/ \E c \in Calls : ChatCompletion(c, <<Text(1)>>, None, FALSE)
    \/ \E c \in Calls : GenerateEmbeddings(c, <<1, 1>>)
    \/ \E c \in Calls : AnalyzeImage(c, 1)
    \/ \E c \in Calls, usage \in ProviderUsages : ChatProviderResponds(c, usage)
    \/ \E c \in Calls, e \in ProviderErrors : ChatProviderFails(c, e)
    \/ \E c \in Calls, usage \in ProviderUsages : EmbeddingsProviderResponds(c, usage)
    \/ \E c \in Calls, e \in ProviderErrors : EmbeddingsProviderFails(c, e)

SpecLifecycle == Init /\ [][NextLifecycle]_vars

\* get_status called once, at any moment among chat_completion calls on the
\* chat profile
NextStatus ==
    \/ InitializeClient
    \/ InitializeDone
    \/ \E c \in Calls : ChatCompletion(c, <<Text(1)>>, None, FALSE)
    \/ \E c \in Calls, usage \in ProviderUsages : ChatProviderResponds(c, usage)
    \/ \E c \in Calls, e \in ProviderErrors : ChatProviderFails(c, e)
    \/ GetStatus

SpecStatus == Init /\ [][NextStatus]_vars

\* The operations of the session store, by the callers in P on the ids in K,
\* over at most T ticks of the clock
SessionOps(P, K, T) ==
    \/ Tick(T)
    \/ \E p \in P, k \in K, u \in UserDatas : CreateSession(p, k, u)
    \/ \E p \in P, ok \in BOOLEAN : CreateSet(p, ok)
    \/ \E p \in P, k \in K, ok \in BOOLEAN : GetSession(p, k, ok)
    \/ \E p \in P, ok \in BOOLEAN : GetWrite(p, ok)
    \/ \E p \in P, k \in K, u \in UpdateChoices, ok \in BOOLEAN :
          UpdateSession(p, k, u, ok)
    \/ \E p \in P, ok \in BOOLEAN : UpdateRefresh(p, ok)
    \/ \E p \in P, ok \in BOOLEAN : UpdateWrite(p, ok)
    \/ \E p \in P, k \in K, ok \in BOOLEAN : DeleteSession(p, k, ok)
    \/ \E p \in P, ok \in BOOLEAN : CleanupExpiredSessions(p, ok)

\* Concurrent callers on one session id
NextSession == SessionOps(Procs, {"s1"}, MaxOverlapTicks)

\* One caller at a time, on all session ids
NextSequential == SessionOps({1}, SessionIds, MaxTicks)

SpecSequential == Init /\ [][NextSequential]_vars

SpecSession == Init /\ [][NextSession]_vars

\* Concurrent create_session and update_session calls on one session id, the
\* updates changing different fields, within one tick of the clock
NextUpdates ==
    \/ \E p \in Procs, u \in UserDatas : CreateSession(p, "s1", u)
    \/ \E p \in Procs, ok \in BOOLEAN : CreateSet(p, ok)
    \/ \E p \in Procs, u \in RaceUpdates, ok \in BOOLEAN : UpdateSession(p, "s1", u, ok)
    \/ \E p \in Procs, ok \in BOOLEAN : UpdateRefresh(p, ok)
    \/ \E p \in Procs, ok \in BOOLEAN : UpdateWrite(p, ok)

SpecUpdates == Init /\ [][NextUpdates]_vars

\* Calls of the pure functions, on each of their inputs
NextFunctions ==
    \/ SelectOptimalModel
    \/ ValidateInputLength

InitProbes == InitManager /\ InitSession /\ InitFunctions

SpecFunctions == InitProbes /\ [][NextFunctions]_vars

(***************************************************************************)
(* Properties of the usage ledger and of the calls                         *)
(***************************************************************************)
\* The calls on profile P whose provider call returned a response that the
\* non-streaming path accounts for.
Accounted(P) ==
    {c \in Calls : /\ calls[c].pc = "done"
                   /\ calls[c].prov.kind = "usage"
                   /\ ~calls[c].stream
                   /\ calls[c].model_type = P}

RECURSIVE SumPrompt(_)
SumPrompt(S) ==
    IF S = {} THEN 0
    ELSE LET c == CHOOSE x \in S : TRUE
         IN calls[c].prov.prompt_tokens + SumPrompt(S \ {c})

RECURSIVE SumCompletion(_)
SumCompletion(S) ==
    IF S = {} THEN 0
    ELSE LET c == CHOOSE x \in S : TRUE
         IN calls[c].prov.completion_tokens + SumCompletion(S \ {c})

RECURSIVE SumCost(_)
SumCost(S) ==
    IF S = {} THEN 0
    ELSE LET c == CHOOSE x \in S : TRUE
         IN _calculate_cost(Models(calls[c].model_type), calls[c].prov.prompt_tokens,
                            calls[c].prov.completion_tokens)
            + SumCost(S \ {c})

\* C1: for every profile P and every interleaving of the calls, the ledger
\* entry of P counts exactly the non-streaming calls on P whose provider call
\* succeeded, and its token totals are the sums of the counts of those calls:
\* no update is lost (in particular once all calls have finished).
C1_NoLostUpdate ==
    \A P \in ModelTypes :
        /\ usage_stats[P].total_requests = Cardinality(Accounted(P))
        /\ usage_stats[P].total_tokens_input = SumPrompt(Accounted(P))
        /\ usage_stats[P].total_tokens_output = SumCompletion(Accounted(P))

\* C1 witness: every call slot ran a successful non-streaming call on the
\* chat profile, and some of them were in flight together.
C1_Witness ==
    /\ \A c \in Calls : c \in Accounted("chat")
    /\ \E c \in Calls : calls[c].overlapped
    /\ \E c, d \in Calls : calls[c].prov.prompt_tokens # calls[d].prov.prompt_tokens

\* C2: the budget check precedes dispatch: a chat request that was sent to
\* the provider counted no more tokens than its profile's context window; a
\* request that counted more ended in TokenLimitExceeded carrying the profile
\* name, the counted tokens and the limit, was never sent, and the step that
\* rejected it changed no ledger field.
C2_BudgetBeforeDispatch ==
    /\ [](\A c \in Calls :
            /\ (calls[c].op = "chat" /\ calls[c].sent)
                  => calls[c].counted <= Models(calls[c].model_type).context_window
            /\ calls[c].result.kind = "TokenLimitExceededError"
                  => /\ ~calls[c].sent
                     /\ calls[c].prov.kind = "none"
                     /\ calls[c].result.model_name = Models(calls[c].model_type).name
                     /\ calls[c].result.max_tokens
                            = Models(calls[c].model_type).context_window
                     /\ calls[c].result.token_count > calls[c].result.max_tokens)
    /\ [][\A c \in Calls :
            (calls[c].pc = "idle" /\ calls'[c].result.kind = "TokenLimitExceededError")
                => usage_stats' = usage_stats]_vars

\* C2 witness: a request over budget was rejected while another request of
\* the same manager was dispatched.
C2_Witness ==
    \E c, d \in Calls :
        /\ calls[c].result.kind = "TokenLimitExceededError"
        /\ calls[c].result.token_count = 200001
        /\ calls[d].sent

\* C3 (as claimed): a non-streaming chat_completion whose budget check passes
\* and whose provider call succeeds returns the normalized result with the
\* provider-reported token counts and raises no error.
C3_SuccessReturnsResult ==
    \A c \in Calls :
        (calls[c].pc = "done" /\ calls[c].op = "chat" /\ ~calls[c].stream
            /\ calls[c].prov.kind = "usage")
        => /\ calls[c].result.kind = "result"
           /\ calls[c].result.prompt_tokens = calls[c].prov.prompt_tokens
           /\ calls[c].result.completion_tokens = calls[c].prov.completion_tokens

\* C4 (as claimed): in every observable state each profile's total_cost is
\* the sum of the costs of exactly the calls whose token counts are in its
\* token totals (by C1, the calls in Accounted).
C4_CostMatchesTokens ==
    \A P \in ModelTypes : usage_stats[P].total_cost = SumCost(Accounted(P))

\* C5: a step in which the provider call of a chat_completion or
\* generate_embeddings fails, after however many attempts of the client, adds
\* exactly 1 to error_count of the call's profile and changes no other field
\* of any ledger entry.
C5_FailureCountsOneError ==
    [][\A c \in Calls :
          (calls[c].pc = "awaiting" /\ calls'[c].prov.kind = "error")
          => usage_stats' =
                [usage_stats EXCEPT ![calls[c].model_type].error_count = @ + 1]]_vars

\* C5 witness: a chat call failed after 4 attempts and an embeddings call
\* failed after 1, each counted once.
C5_Witness ==
    \E c, d \in Calls :
        /\ calls[c].op = "chat" /\ calls[c].prov.kind = "error"
        /\ calls[c].prov.attempts = 4
        /\ calls[d].op = "embeddings" /\ calls[d].prov.kind = "error"
        /\ calls[d].prov.attempts = 1
        /\ usage_stats[calls[c].model_type].error_count >= 1
        /\ usage_stats["embeddings"].error_count >= 1

(***************************************************************************)
(* Properties of the session store                                         *)
(***************************************************************************)
\* The ids whose stored record is stale at time t: t - last_activity exceeds
\* the session timeout.
Stale(st, t) ==
    {k \in redis_keys(st) :
        t - st[k].value.doc.last_activity > CONVERSATION_TIMEOUT_MINUTES * 60}

\* C7 (as claimed): a cleanup_expired_sessions that runs with no operation in
\* flight and with the cache answering deletes exactly the stale sessions,
\* leaves every other session in the store, and returns how many it deleted.
C7_SweepDeletesStale ==
    [][(NoneInFlight /\ ret'.op = "cleanup" /\ ret'.value.logged # "ConnectionError")
        => /\ store' = [k \in SessionIds |->
                           IF k \in Stale(store, now) THEN NoRec ELSE store[k]]
           /\ ret'.value.value = Cardinality(Stale(store, now))]_vars

\* The record a get_session that found session_data writes and returns
RefreshedAt(session_data, t) == [session_data EXCEPT !.last_activity = t]

\* What the write of a get_session on id leaves in the cache when the cache
\* accepts it: data, with the full session timeout to live.
Rearmed(id, data) ==
    [store EXCEPT ![id] = [kind |-> "rec", value |-> json_dumps(data),
                           expire_at |-> now + CONVERSATION_TIMEOUT_MINUTES * 60]]

\* The steps of get_session, called directly or by update_session, as
\* conditions on a step of caller p
GetFinds(p) == procs[p].pc = "idle" /\ procs'[p].pc \in {"get_write", "update_refresh"}
GetMisses == procs' = procs /\ ret'.op = "get"
GetWrites(p) ==
    \/ procs[p].pc = "get_write" /\ procs'[p].pc = "idle"
    \/ procs[p].pc = "update_refresh" /\ procs'[p].pc = "update_write"
GetReturns(p) == procs[p].pc = "get_write" /\ procs'[p].pc = "idle"

NotServed(id) ==
    /\ store[id] = NoRec
    /\ (ret.op = "get" /\ ret.id = id) => ret.value = PyNone

C10_CreateUpdateGet ==
    (scen.stage = 6 /\ ret.op = "get")
    => /\ ret.id = Watched
       /\ ret.value.kind = "dict"
       /\ Len(ret.value.value.messages) = 1
       /\ ret.value.value.messages = <<Hi>>
       /\ ret.value.value.created_at = scen.t0
       /\ ret.value.value.last_activity > ret.value.value.created_at

\* C10 witness: the run of create, update and get completed and the get
\* returned.
C10_Witness == scen.stage = 6 /\ ret.op = "get" /\ ret.value.kind = "dict"

\* The steps in which update_session starts its writes, and in which it
\* returns without having started them
UpdateProceeds(p) ==
    procs[p].pc = "idle" /\ procs'[p].pc \in {"update_refresh", "update_write"}
UpdateMisses == procs' = procs /\ ret'.op = "update"

\* C11: an update_session on an id that has no record never goes on to write:
\* it returns False (a value, no exception) and leaves the store unchanged.
C11_UpdateUnknownReturnsFalse ==
    [][/\ \A p \in Procs : UpdateProceeds(p) => store[procs'[p].id].kind = "rec"
       /\ (UpdateMisses /\ store[ret'.id] = NoRec)
             => (ret'.value = PyBool(FALSE) /\ store' = store)]_vars

\* C11 witness: update_session returned False on an id without a record
\* while the store held the record of another session.
C11_Witness ==
    /\ ret.op = "update" /\ ret.value = PyBool(FALSE)
    /\ store[ret.id] = NoRec
    /\ \E k \in SessionIds : store[k].kind = "rec"

\* C12: delete_session returns True exactly when a record of the id existed
\* and the step removed it; on an id without a record it returns False and
\* changes nothing; it never changes another id's record; and a
\* delete_session directly after a successful one on the same id returns False.
C12_DeleteReturnsWhetherRemoved ==
    [][ret'.op = "delete" =>
         /\ ret'.value.kind = "bool"
         /\ ret'.value.value
               <=> (store[ret'.id].kind = "rec" /\ store'[ret'.id] = NoRec)
         /\ store[ret'.id] = NoRec => store' = store
         /\ \A k \in SessionIds \ {ret'.id} : store'[k] = store[k]
         /\ (ret.op = "delete" /\ ret.id = ret'.id /\ ret.value.value)
               => ~ret'.value.value]_vars

\* C12 witness: the session was written and its time to live has not run out,
\* yet its record is gone (a delete_session removed it) and a delete_session
\* on it has just returned False.
C12_Witness ==
    /\ ret.op = "delete" /\ ret.id = Watched /\ ret.value = PyBool(FALSE)
    /\ store[Watched] = NoRec
    /\ last_ok # Never /\ now < last_ok + CONVERSATION_TIMEOUT_MINUTES * 60

\* The steps in which the cache executes a write of update_session: the one
\* of the get_session inside it, and its own, after which it returns
UpdateRefreshes(p) == procs[p].pc = "update_refresh" /\ procs'[p].pc = "update_write"
UpdateWrites(p) == procs[p].pc = "update_write" /\ procs'[p].pc = "idle"
UpdateOverlaps(p) ==
    \E q \in Procs \ {p} :
        procs[q].pc \in {"update_refresh", "update_write"} /\ procs[q].id = procs[p].id

RoutingReference(hints, complexity, speed) ==
    LET reasoning == "reasoning" \in hints \/ complexity = "high"
        rules == << <<"embedding" \in hints, "embeddings">>,
                    <<"vision" \in hints, "vision">>,
                    <<"audio" \in hints, "audio">>,
                    <<reasoning /\ speed = "fast", "fast_reasoning">>,
                    <<reasoning, "reasoning">>,
                    <<complexity = "low" /\ speed = "fast", "fast_reasoning">>,
                    <<TRUE, "chat">> >>
        first == CHOOSE k \in 1..Len(rules) :
                    rules[k][1] /\ \A j \in 1..(k - 1) : ~rules[j][1]
    IN rules[first][2]

Selected == probe.fn = "select_optimal_model" /\ probe.returned
Validated == probe.fn = "validate_input_length" /\ probe.returned

\* C14: for every task type, complexity and speed, select_optimal_model
\* returns what the fixed precedence gives: embedding task, else vision or
\* image hint, else audio or speech hint, else reasoning task or high
\* complexity (the fast variant under speed "fast"), else low complexity under
\* speed "fast", else chat.
C14_RoutingFollowsPrecedence ==
    Selected => probe.out = RoutingReference(probe.task.hints, probe.complexity,
                                             probe.speed_requirement)

\* C14 witness: task type "embedding" under high complexity and speed "fast"
\* was routed to the embeddings profile.
C14_Witness ==
    /\ Selected
    /\ probe.task.text = <<"e","m","b","e","d","d","i","n","g">>
    /\ probe.complexity = "high" /\ probe.speed_requirement = "fast"
    /\ probe.out = "embeddings"

\* C15: select_optimal_model returns the reasoning profile only when the
\* speed is not "fast"; under high complexity and speed "fast" it never
\* returns it, whatever the task type.
C15_FastNeverPlainReasoning ==
    Selected =>
        /\ probe.out = "reasoning" => probe.speed_requirement # "fast"
        /\ (probe.complexity = "high" /\ probe.speed_requirement = "fast")
              => probe.out # "reasoning"

\* C15 witness: a task without hints under high complexity and speed "fast"
\* was routed to the fast reasoning profile.
C15_Witness ==
    /\ Selected
    /\ probe.task.hints = {}
    /\ probe.complexity = "high" /\ probe.speed_requirement = "fast"
    /\ probe.out = "fast_reasoning"

\* C16: validate_input_length raises TokenLimitExceeded, carrying the profile
\* name, the count and the limit, exactly when the tokens of the string
\* contents and of the text parts of the messages sum to more than the
\* profile's context window; it returns True when the sum is at most the
\* window, the boundary included.
C16_BudgetCountsTextOnly ==
    Validated =>
        LET limit == Models(probe.model_type).context_window
        IN IF probe.input.counted > limit
           THEN probe.out = [kind |-> "TokenLimitExceededError",
                             model_name |-> Models(probe.model_type).name,
                             token_count |-> probe.input.counted,
                             max_tokens |-> limit]
           ELSE probe.out = [kind |-> "True"]

\* C16 witness: a message list with multi-part content whose text counts
\* exactly the context window of the profile was accepted.
C16_Witness ==
    /\ Validated
    /\ probe.input.counted = Models(probe.model_type).context_window
    /\ \E k \in 1..Len(probe.input.messages) : probe.input.messages[k].kind = "list"
    /\ probe.out = [kind |-> "True"]

(***************************************************************************)
(* Properties of error classification, embeddings and streams              *)
(***************************************************************************)
\* The provider failures whose message holds the rate-limit pattern
RateLimited == {RateLimitMessage}

\* C17: a chat_completion whose provider call failed raised RateLimitExceeded
\* when the failure message holds "rate limit" in any letter case, and
\* otherwise ModelInferenceError carrying the name of the call's profile; it
\* raised nothing else.
C17_ChatFailureClassified ==
    \A c \in Calls :
        (calls[c].op = "chat" /\ calls[c].prov.kind = "error")
        => IF calls[c].prov.message \in RateLimited
           THEN calls[c].result.kind = "RateLimitExceededError"
           ELSE /\ calls[c].result.kind = "ModelInferenceError"
                /\ calls[c].result.model_name = Models(calls[c].model_type).name

\* C17 witness: one chat call failed with "Rate limit reached" and raised
\* RateLimitExceeded, another failed with "Bad request" and raised
\* ModelInferenceError.
C17_Witness ==
    \E c, d \in Calls :
        /\ calls[c].op = "chat" /\ calls[c].prov.kind = "error"
        /\ calls[c].prov.message = RateLimitMessage
        /\ calls[c].result.kind = "RateLimitExceededError"
        /\ calls[d].op = "chat" /\ calls[d].prov.kind = "error"
        /\ calls[d].prov.message = BadRequestMessage
        /\ calls[d].result.kind = "ModelInferenceError"

\* C18 (as claimed): an embeddings request that was sent to the provider
\* counted no more tokens than the context window of the embeddings profile.
C18_EmbeddingsBudgetBeforeDispatch ==
    \A c \in Calls :
        (calls[c].op = "embeddings" /\ calls[c].sent)
        => calls[c].counted <= Models("embeddings").context_window

\* C19 (as claimed): a generate_embeddings whose provider call failed with a
\* message holding the rate-limit pattern raised RateLimitExceeded, and with
\* any other message ModelInferenceError.
C19_EmbeddingsFailureClassified ==
    \A c \in Calls :
        (calls[c].op = "embeddings" /\ calls[c].prov.kind = "error")
        => IF calls[c].prov.message \in RateLimited
           THEN calls[c].result.kind = "RateLimitExceededError"
           ELSE calls[c].result.kind = "ModelInferenceError"

\* C20 (as claimed): the step in which the stream of a stream=True call ends
\* makes exactly one ledger transition for the call's profile: when the
\* stream completed, one more request with the token counts of the stream;
\* when it failed, one more error.
C20_StreamEndAccounted ==
    [][\A c \in Calls :
          (calls[c].pc = "streaming" /\ calls'[c].pc = "done")
          => LET mt == calls[c].model_type
                 was == usage_stats[mt]
                 is == usage_stats'[mt]
             IN IF calls'[c].stream_end = "completed"
                THEN /\ is.total_requests = was.total_requests + 1
                     /\ is.total_tokens_input
                            = was.total_tokens_input + calls[c].prov.prompt_tokens
                     /\ is.total_tokens_output
                            = was.total_tokens_output + calls[c].prov.completion_tokens
                     /\ is.error_count = was.error_count
                ELSE /\ is.error_count = was.error_count + 1
                     /\ is.total_requests = was.total_requests]_vars

(***************************************************************************)
(* Properties of cancellation, of the ledger entries and of the snapshot   *)
(***************************************************************************)
\* C21: the step in which a chat_completion or generate_embeddings call is
\* cancelled while suspended in the provider call changes no field of any
\* ledger entry; when every call was cancelled, the ledger is as constructed.
C21_CancelledLeavesLedger ==
    /\ [][\A c \in Calls :
            (calls[c].pc = "awaiting" /\ calls'[c].result.kind = "CancelledError")
            => usage_stats' = usage_stats]_vars
    /\ []((\A c \in Calls : calls[c].result.kind = "CancelledError")
            => usage_stats = [mt \in ModelTypes |-> ModelUsage])

\* C21 witness: a chat_completion and a generate_embeddings were both
\* cancelled after they had been sent to the provider.
C21_Witness ==
    \E c, d \in Calls :
        /\ calls[c].op = "chat" /\ calls[c].sent
        /\ calls[c].result.kind = "CancelledError"
        /\ calls[d].op = "embeddings" /\ calls[d].sent
        /\ calls[d].result.kind = "CancelledError"

\* C22: the ledger has one entry per configured model type at all times, and
\* a step of a call on profile P, whether it records a success or a failure,
\* leaves every field of the entry of every other profile unchanged.
C22_ProfilesIndependent ==
    /\ [](DOMAIN usage_stats = ModelTypes)
    /\ [][\A c \in Calls :
            calls'[c] # calls[c]
            => \A Q \in ModelTypes \ {calls'[c].model_type} :
                  usage_stats'[Q] = usage_stats[Q]]_vars

\* C22 witness: a response was recorded for the chat profile and a failure
\* for the embeddings profile, whose entry holds nothing else.
C22_Witness ==
    \E c, d \in Calls :
        /\ c \in Accounted("chat")
        /\ calls[d].model_type = "embeddings" /\ calls[d].prov.kind = "error"
        /\ usage_stats["chat"].total_requests = 1
        /\ usage_stats["embeddings"] = [ModelUsage EXCEPT !.error_count = 1]

RECURSIVE SumLatency(_)
SumLatency(S) ==
    IF S = {} THEN 0
    ELSE LET c == CHOOSE x \in S : TRUE
         IN calls[c].prov.ms + SumLatency(S \ {c})

Reported(out) ==
    IF out.kind = "live" THEN [mt \in ModelTypes |-> UsageOf(usage_stats[mt])]
    ELSE out.usage

\* v units of 1 / scale are the nearest to n / d
Nearest(v, scale, n, d) ==
    LET off == v * d - n * scale
    IN 2 * off <= d /\ 2 * (0 - off) <= d

\* C24: what the caller reads in the usage returned by get_status is, for
\* every profile and at any later time, computed from the one ledger state
\* in which get_status ran: the request count of that state, and its cost,
\* average latency and error rate to the nearest 1e-4, 1e-2 and 1e-2; later
\* ledger updates do not show in it.
C24_StatusIsSnapshot ==
    (probe.fn = "get_status" /\ probe.out.status = "ready")
    => \A P \in ModelTypes :
          LET got == Reported(probe.out)[P]
              was == probe.seen[P]
          IN /\ got.total_requests = was.total_requests
             /\ Nearest(got.total_cost, 10000, was.total_cost, 1000000000)
             /\ Nearest(got.average_latency_ms, 100, was.average_latency_ms[1],
                        was.average_latency_ms[2])
             /\ Nearest(got.error_rate, 100, was.error_count * 100,
                        Max(was.total_requests, 1))

\* C24 witness: get_status ran when one response had been recorded for the
\* chat profile with a call still in flight; the ledger has since recorded
\* that call, and the returned usage still reports one request of 4 ms.
C24_Witness ==
    /\ probe.fn = "get_status" /\ probe.out.status = "ready"
    /\ probe.seen["chat"].total_requests = 1
    /\ usage_stats["chat"].total_requests = 2
    /\ usage_stats["chat"].average_latency_ms = <<5, 2>>
    /\ Reported(probe.out)["chat"].total_requests = 1
    /\ Reported(probe.out)["chat"].average_latency_ms = 400

(***************************************************************************)
(* Properties of the session store under cache failures and deletions      *)
(***************************************************************************)
\* C25: a get_session or update_session that ends at its read of the cache
\* although the cache holds the record (the cache raised on get) returns
\* None, respectively False, raises nothing and leaves the cache as it was.
C25_ReadFailureIsAbsence ==
    [][(ret'.op \in {"get", "update"} /\ procs' = procs
            /\ store[ret'.id].kind = "rec")
       => /\ ret'.value = IF ret'.op = "get" THEN PyNone ELSE PyBool(FALSE)
          /\ store' = store]_vars

\* C25 witness: get_session has just returned None for a session whose
\* record is in the cache, with no other operation in flight.
C25_Witness ==
    /\ ret.op = "get" /\ ret.value = PyNone
    /\ store[ret.id].kind = "rec"
    /\ NoneInFlight

\* C26 (as claimed): a create_session or update_session whose write to the
\* cache did not succeed ends in a CacheError naming the operation, which
\* tells it from the False of update_session for an unknown session.
C26_WriteFailureRaisesCacheError ==
    [][\A p \in Procs :
          (procs[p].pc \in {"create_set", "update_write"} /\ procs'[p].pc = "idle"
              /\ ret'.value # PyBool(TRUE))
          => ret'.value.kind = "CacheError"]_vars

\* C27: when cleanup_expired_sessions runs twice in a row, with no other
\* operation and no advance of the clock in between, the second run deletes
\* nothing, returns 0 and leaves the cache exactly as the first run left it.
C27_SweepIdempotent ==
    [][(ret.op = "cleanup" /\ ret'.op = "cleanup")
       => /\ ret'.value.value = 0
          /\ store' = store
          /\ now' = now]_vars

\* C27 witness: cleanup_expired_sessions has run twice in a row on a cache
\* that holds a stale session, and the second run returned 0.
C27_Witness ==
    /\ ret.op = "cleanup" /\ ret.value.again
    /\ ret.value.value = 0
    /\ Stale(store, now) # {}

(***************************************************************************)
(* Properties of the errors and of the outcomes of a call                  *)
(***************************************************************************)
\* C28 (as claimed): two calls of the same operation on the same profile
\* that raised ModelInferenceError for the same provider failure, and whose
\* inputs have the same number of items (they differ in the text only),
\* carry the same error: the text of the input is not in its context.
C28_ErrorContextRedacted ==
    \A c, d \in Calls :
        (/\ calls[c].result.kind = "ModelInferenceError"
         /\ calls[d].result.kind = "ModelInferenceError"
         /\ calls[c].op = calls[d].op
         /\ calls[c].model_type = calls[d].model_type
         /\ calls[c].result.detail = calls[d].result.detail
         /\ Len(calls[c].input) = Len(calls[d].input))
        => calls[c].result = calls[d].result

\* C29 (as claimed): the step in which a non-streaming chat_completion that
\* was sent to the provider ends, with a response or with a failure of the
\* provider, changes the ledger entry of its profile by exactly one of
\* total_requests + 1 and error_count + 1, never by both.
C29_OneTransitionPerCall ==
    [][\A c \in Calls :
          (calls[c].pc = "awaiting" /\ calls[c].op = "chat" /\ ~calls[c].stream
              /\ calls'[c].pc = "done" /\ calls'[c].prov.kind \in {"usage", "error"})
          => LET was == usage_stats[calls[c].model_type]
                 is == usage_stats'[calls[c].model_type]
             IN \/ /\ is.total_requests = was.total_requests + 1
                   /\ is.error_count = was.error_count
                \/ /\ is.total_requests = was.total_requests
                   /\ is.error_count = was.error_count + 1]_vars

\* C30 (as claimed): once delete_session(id) has returned true, the write of
\* a get_session(id) or update_session(id, ...) that read the record before
\* the delete does not put the record back: the cache holds no record for id
\* after it.
C30_DeleteNotUndone ==
    [][\A p \in Procs :
          (/\ ret.op = "delete" /\ ret.value = PyBool(TRUE)
           /\ procs[p].pc \in {"get_write", "update_refresh", "update_write"}
           /\ procs[p].id = ret.id
           /\ procs'[p] # procs[p])
          => store'[ret.id].kind = "none"]_vars

(***************************************************************************)
(* Properties of the stored record                                         *)
(***************************************************************************)
\* C31: when create_session returns, it returns True if the cache took its
\* write, and then the cache holds for the id a fresh record: no messages, an
\* empty context, the state "greeting", the user data given, created_at and
\* last_activity at the time of the call, the session timeout as time to
\* live; whatever record the id held before is replaced.
C31_CreateStoresFresh ==
    [][\A p \in Procs :
          (procs[p].pc = "create_set" /\ procs'[p].pc = "idle")
          => LET id == procs[p].id
                 rec == store'[id]
             IN /\ store' # store => ret'.value = PyBool(TRUE)
                /\ ret'.value = PyBool(TRUE)
                      => /\ rec.kind = "rec"
                         /\ rec.expire_at = now + CONVERSATION_TIMEOUT_MINUTES * 60
                         /\ rec.value.doc.session_id = id
                         /\ rec.value.doc.messages = <<>>
                         /\ rec.value.doc.context = <<>>
                         /\ rec.value.doc.conversation_state = "greeting"
                         /\ rec.value.doc.user_data = [user_id |-> "u1"]
                         /\ rec.value.doc.created_at = rec.value.doc.last_activity
                         /\ rec.value.doc.created_at <= now
                         /\ (id = Watched /\ scen.stage = 1)
                               => rec.value.doc.created_at = scen.t0]_vars

\* C31 witness: create_session was called for a session whose record held a
\* message, and has returned True; the record has no messages, is in state
\* "greeting" and was created at the time of this call.
C31_Witness ==
    /\ scen.stage = 2 /\ scen.over
    /\ ret.op = "create" /\ ret.value = PyBool(TRUE)
    /\ store[Watched].kind = "rec"
    /\ store[Watched].value.doc.messages = <<>>
    /\ store[Watched].value.doc.created_at = scen.t0
    /\ scen.t0 > 0

\* The steps in which get_session or update_session writes to the cache
SessionWrite(p) ==
    /\ procs[p].pc \in {"get_write", "update_refresh", "update_write"}
    /\ procs'[p] # procs[p]

\* C32 (as claimed): an update_session that returns True leaves every field
\* of the stored record that its updates do not name, last_activity apart, at
\* the value it had before, and sets last_activity to the time it read from
\* the clock; no write of get_session or update_session lowers the
\* last_activity of the stored record (of one and the same creation).
C32_UpdateKeepsOtherFields ==
    [][\A p \in Procs :
          LET id == procs[p].id
          IN /\ (UpdateWrites(p) /\ ret'.value = PyBool(TRUE) /\ store[id].kind = "rec")
                  => /\ \A f \in DOMAIN store[id].value.doc :
                           f \notin (DOMAIN procs[p].updates) \cup {"last_activity"}
                           => store'[id].value.doc[f] = store[id].value.doc[f]
                     /\ store'[id].value.doc.last_activity <= now
             /\ (/\ SessionWrite(p)
                 /\ store[id].kind = "rec" /\ store'[id].kind = "rec"
                 /\ store[id].value.doc.created_at = store'[id].value.doc.created_at)
                  => store'[id].value.doc.last_activity
                        >= store[id].value.doc.last_activity]_vars

\* C33: a run of cleanup_expired_sessions leaves every session that is not
\* stale as it was: the stored record, its last_activity and the time at
\* which its key expires are the same after the run as before.
C33_SweepLeavesLiveSessions ==
    [][ret'.op = "cleanup"
       => \A k \in redis_keys(store) \ Stale(store, now) :
             /\ store'[k] = store[k]
             /\ now' = now]_vars

\* C33 witness: cleanup_expired_sessions has run, without an error of the
\* cache, while the cache held a session that a get_session had refreshed
\* and that is not stale.
C33_Witness ==
    /\ ret.op = "cleanup" /\ ret.value.logged # "ConnectionError"
    /\ \E k \in redis_keys(store) \ Stale(store, now) :
          store[k].value.doc.last_activity > store[k].value.doc.created_at

(***************************************************************************)
(* Properties of the lifecycle of the manager                              *)
(***************************************************************************)
\* C34: a chat_completion, generate_embeddings or analyze_image called while
\* initialized is false ends at once in ModelInitializationError, is not
\* sent to the provider and changes no ledger field; and whenever
\* initialized is true the provider client has been created.
C34_UninitializedRejects ==
    /\ [](initialized => client # "none")
    /\ [][\A c \in Calls :
            (~initialized /\ calls[c].pc = "idle" /\ calls'[c].pc # "idle")
            => /\ calls'[c].pc = "done"
               /\ calls'[c].result.kind = "ModelInitializationError"
               /\ ~calls'[c].sent
               /\ usage_stats' = usage_stats]_vars

\* C34 witness: with the client created but initialize() not yet completed,
\* an analyze_image and a generate_embeddings were rejected with
\* ModelInitializationError.
C34_Witness ==
    /\ ~initialized /\ client = "open"
    /\ \E c, d \in Calls :
          /\ calls[c].op = "analyze_image"
          /\ calls[c].result.kind = "ModelInitializationError"
          /\ calls[d].op = "embeddings"
          /\ calls[d].result.kind = "ModelInitializationError"

\* C35 (as claimed): a chat_completion or generate_embeddings called after
\* cleanup() has closed the client is not sent to the provider and ends at
\* once in ModelInitializationError, as before initialize().
C35_ClosedClientRejects ==
    [][\A c \in Calls :
          (client = "closed" /\ calls[c].pc = "idle" /\ calls'[c].pc # "idle")
          => /\ calls'[c].pc = "done"
             /\ ~calls'[c].sent
             /\ calls'[c].result.kind = "ModelInitializationError"]_vars

\* C36 (as claimed): the request of a chat_completion carries stream only
\* when streaming was asked for and the profile supports it, and tools only
\* when functions were given and the profile supports them; and a call that
\* asked for streaming on a profile without supports_streaming is, when the
\* provider responds, entered in the ledger and does not return a stream.
C36_UnsupportedStreamAccounted ==
    /\ [](\A c \in Calls :
            calls[c].sent /\ calls[c].op = "chat"
            => /\ calls[c].request.stream
                    => calls[c].stream /\ Models(calls[c].model_type).supports_streaming
               /\ calls[c].request.tools # <<>>
                    => Models(calls[c].model_type).supports_functions)
    /\ [][\A c \in Calls :
            ( /\ calls[c].pc = "awaiting" /\ calls[c].op = "chat"
              /\ calls[c].stream /\ ~calls[c].request.stream
              /\ calls'[c].pc # "awaiting"
              /\ calls'[c].prov # NoValue )
            => /\ calls'[c].result.kind # "stream"
               /\ usage_stats'[calls[c].model_type].total_requests
                    = usage_stats[calls[c].model_type].total_requests + 1]_vars

====
